---- MODULE Spec2Model ----
(***************************************************************************)
(* Voting / SMS subsystem of backend/server.js over the SQLite database    *)
(* that backend/init-db.js creates.                                        *)
(*                                                                         *)
(* Every SQL statement is one atomic step.  A handler is the chain of its  *)
(* statements: a statement issued from the callback of another one runs    *)
(* after it; statements issued back to back without waiting for a callback *)
(* (db.run(...); db.run(...);) are handed to the driver together and each  *)
(* runs at some later step, in no fixed order (node-sqlite3 runs a         *)
(* Database in parallel mode unless db.serialize is used, and server.js    *)
(* never uses it).  The JavaScript of a callback only reads the statement  *)
(* result and issues further statements or the response, so it is folded   *)
(* into the step of the statement it belongs to.                           *)
(***************************************************************************)
EXTENDS Integers, Sequences, FiniteSets, TLC

\* ---------------------------------------------------------------- bounds
MaxRows == 2         \* rows ever inserted into votes plus rows held in
                     \* pending_votes and in donations
MaxRound == 2        \* largest value of voting_config.current_round
MaxRequests == 3     \* requests that arrive in a run where requests overlap

\* requests in flight at the same time
Slots == {"s1", "s2"}
Phones == {"p1", "p2"}

\* (phoneNumber, letter) of the bodies of POST /api/votes; the handler
\* validates neither
VoteInputs == { <<"p1", "b">>, <<"p2", "z">> }

\* status values a client may put in the body of POST /api/votes/status
StatusInputs == {"running", "stopped", "paused"}

\* (From, Body) of the SMS messages, Body as a sequence of characters
SmsInputs ==
  { <<"p1", <<" ", "b">>>>, <<"p1", <<>>>>,
    <<"p1", <<"5">>>>, <<"p2", <<"a", "1", "2", " ", "3">>>>,
    <<"p2", <<"z">>>> }

\* ------------------------------------------------------- string helpers
\* String.prototype.toUpperCase on the one-character strings in use
toUpperCase(c) ==
  CASE c = "a" -> "A" [] c = "b" -> "B" [] c = "c" -> "C"
    [] c = "d" -> "D" [] c = "e" -> "E" [] c = "f" -> "F"
    [] c = "h" -> "H" [] c = "i" -> "I" [] c = "z" -> "Z"
    [] OTHER -> c

IsSpace(c) == c = " "

RECURSIVE TrimLeft(_)
TrimLeft(s) ==
  IF s # <<>> /\ IsSpace(Head(s)) THEN TrimLeft(Tail(s)) ELSE s

RECURSIVE TrimRight(_)
TrimRight(s) ==
  IF s # <<>> /\ IsSpace(s[Len(s)])
    THEN TrimRight(SubSeq(s, 1, Len(s) - 1)) ELSE s

\* String.prototype.trim
Trim(s) == TrimRight(TrimLeft(s))

\* the test without the character class
isSingleLetter_AnyLetter(message) == Len(message) = 1

\* /^[A-Fa-f]$/i.test(message)
isSingleLetter(message) ==
  /\ Len(message) = 1
  /\ toUpperCase(message[1]) \in {"A", "B", "C", "D", "E", "F"}

Digits == {"0", "1", "2", "3", "4", "5", "6", "7", "8", "9"}

DigitVal(c) ==
  CASE c = "0" -> 0 [] c = "1" -> 1 [] c = "2" -> 2 [] c = "3" -> 3
    [] c = "4" -> 4 [] c = "5" -> 5 [] c = "6" -> 6 [] c = "7" -> 7
    [] c = "8" -> 8 [] c = "9" -> 9 [] OTHER -> 0

RECURSIVE DropNonDigits(_)
DropNonDigits(s) ==
  IF s # <<>> /\ Head(s) \notin Digits THEN DropNonDigits(Tail(s)) ELSE s

RECURSIVE TakeDigits(_)
TakeDigits(s) ==
  IF s # <<>> /\ Head(s) \in Digits
    THEN <<Head(s)>> \o TakeDigits(Tail(s)) ELSE <<>>

\* the match anchored at the start of the message
amountMatch_FromStart(message) == TakeDigits(message)

\* message.match(/\d+/): the first maximal run of digits, <<>> for null
amountMatch(message) == TakeDigits(DropNonDigits(message))

RECURSIVE parseInt(_)
parseInt(ds) ==
  IF ds = <<>> THEN 0
  ELSE 10 * parseInt(SubSeq(ds, 1, Len(ds) - 1)) + DigitVal(ds[Len(ds)])

\* amountMatch ? parseInt(amountMatch[0]) : 0
DonationAmount(message) ==
  IF amountMatch(message) # <<>> THEN parseInt(amountMatch(message)) ELSE 0

\* message.trim() === (amountMatch?.[0] || "") ? "" : message
Dedication(message) ==
  IF Trim(message) = amountMatch(message) THEN <<>> ELSE message

\* ------------------------------------------------------------- database
VARIABLES
  schema,          \* tables of database/users.db besides those of init-db.js
  votes,           \* table votes: set of rows
  nextVoteId,      \* AUTOINCREMENT counter of votes.id
  pending_votes,   \* table pending_votes: rows in rowid order
  voting_config,   \* the row id = 1 of voting_config
  voting_history,  \* table voting_history: rows in rowid order
  donations,       \* table donations: rows in rowid order
  auto_reply,      \* app_config value of key auto_reply_message
  lastSet,         \* history variable: << v >> once POST /api/config/
                   \* auto_reply_message has stored v, v being the latest
  NODE_ENV,        \* process.env.NODE_ENV
  req,             \* the requests in flight, one per slot
  sent,            \* the response sent by the last step, if any
  done,            \* the request whose last statement ran in the last step
  overlap,         \* TRUE when a request may arrive while another is in flight
  started,         \* number of requests that have arrived, counted when overlap
  accepted,        \* history variable: rows whose INSERT INTO votes succeeded
                   \* and that DELETE /api/votes/:voteId has not deleted
  USE_SPACES,      \* process.env.USE_SPACES === "true"
  users,           \* table users: rows in rowid order
  images,          \* the stored images: files of uploads/images, or objects
                   \* of the bucket when USE_SPACES
  nextUuid,        \* number of names uuidv4() has given to uploads
  ureq,            \* the gallery requests in flight, one per slot
  usent,           \* the response a gallery request sent in the last step
  udone,           \* the gallery request that ended in the last step
  submitted        \* history variable: ids that POST /api/submit answered
                   \* with 201 and that DELETE FROM users has not removed

vars ==
  << schema, votes, nextVoteId, pending_votes, voting_config, voting_history,
     donations, auto_reply, lastSet, req, sent, done, overlap,
     started, accepted, USE_SPACES, users, images, nextUuid, ureq, usent,
     udone, submitted, NODE_ENV >>

dbvars ==
  << schema, votes, nextVoteId, pending_votes, voting_config, voting_history,
     donations, auto_reply, lastSet, accepted >>

\* the state of the voting and SMS routes, requests included
votingvars ==
  << schema, votes, nextVoteId, pending_votes, voting_config, voting_history,
     donations, auto_reply, lastSet, accepted, req, sent, done >>

\* the state of the gallery routes (/api/submit, /api/users), requests
\* included
galleryvars ==
  << USE_SPACES, users, images, nextUuid, ureq, usent, udone, submitted >>

\* Tables no statement of the repository creates; they exist only in a
\* database file that was provisioned with them.
OptionalTables == {"pending_votes", "donations"}

\* SELECT ... FROM votes: the rows of a set in rowid order
RECURSIVE RowsById(_)
RowsById(S) ==
  IF S = {} THEN <<>>
  ELSE LET m == CHOOSE x \in S : \A y \in S : x.id <= y.id
       IN  <<m>> \o RowsById(S \ {m})

\* JSON.stringify of an array of votes rows: fields in column order
JSONstringify(rows) ==
  [i \in 1..Len(rows) |->
     <<rows[i].id, rows[i].phone_number, rows[i].letter, rows[i].round>>]

\* JSON.parse of such a text
JSONparse(text) ==
  [i \in 1..Len(text) |->
     [id |-> text[i][1], phone_number |-> text[i][2],
      letter |-> text[i][3], round |-> text[i][4]]]

Range(s) == {s[i] : i \in 1..Len(s)}

\* config?.current_round || 1
RoundOr1(config) ==
  IF config.current_round = 0 THEN 1 ELSE config.current_round

\* a response: code 0 stands for "no response sent yet"
NoResp ==
  [kind |-> "none", code |-> 0, pending |-> FALSE, currentRound |-> 0,
   roundStatus |-> "", text |-> "", value |-> "", votes |-> << >>,
   pendingVotes |-> << >>, roundHistory |-> << >>]

IdleReq ==
  [kind |-> "none", pc |-> "idle", phone |-> "", letter |-> "",
   status |-> "", voteId |-> 0, message |-> <<>>,
   config |-> [current_round |-> 0, status |-> ""],
   roundVotes |-> <<>>, todo |-> {},
   votes0 |-> {}, history0 |-> <<>>, pending0 |-> <<>>,
   donations0 |-> <<>>, value |-> <<>>, method |-> "", path |-> <<>>,
   history |-> << >>]

\* a request whose handler has nothing left to run
Finished(r) == req[r].pc = "idle"

InFlight(kinds) ==
  Cardinality({s \in Slots : req[s].kind \in kinds /\ ~Finished(s)})

\* a request that arrives; votes0, history0, pending0 and donations0 are
\* history variables that remember the tables it found
NewReq(kind) ==
  [IdleReq EXCEPT !.kind = kind, !.votes0 = votes,
                  !.history0 = voting_history, !.pending0 = pending_votes,
                  !.donations0 = donations]

\* the slot of a request is free again once its last statement has run
Settle(rec) == IF rec.pc = "done" /\ rec.todo = {} THEN IdleReq ELSE rec

\* request r goes on as rec, or ends and frees its slot
Advance(r, rec) ==
  /\ req' = [req EXCEPT ![r] = Settle(rec)]
  /\ done' = IF Settle(rec) = IdleReq THEN rec ELSE IdleReq

Respond(kind, code) == [NoResp EXCEPT !.kind = kind, !.code = code]

\* no request in flight
Quiet == \A s \in Slots : Finished(s)

\* a request arrives in slot r: at any time while the run has requests left,
\* or, when requests do not overlap, once the one before has run its last
\* statement (every slot is free then, and the first one is taken)
Arrives(r) ==
  /\ IF overlap THEN started < MaxRequests
                ELSE Quiet /\ r = CHOOSE s \in Slots : TRUE
  /\ started' = IF overlap THEN started + 1 ELSE started
  /\ overlap' = overlap
  /\ UNCHANGED galleryvars
  /\ UNCHANGED NODE_ENV

\* a statement of a request in flight runs
Proceeds ==
  UNCHANGED << started, overlap, NODE_ENV >> /\ UNCHANGED galleryvars

\* room for one more row in votes, pending_votes or donations
RowRoom ==
  (nextVoteId - 1) + Len(pending_votes) + Len(donations)
    + InFlight({"vote", "sms", "donation"}) < MaxRows

\* ------------------------------------------------ gallery: inputs, helpers
MaxUploads == 2      \* uploads that reach the storage engine (names uuidv4
                     \* gives out)

\* values generateShortId() returns; nothing makes two calls differ
Ids == {"u1", "u2"}

\* req.body.name as a sequence of characters; <<>> is the absent field as
\* well as the empty string (both are falsy)
NameInputs == { <<>>, <<" ">>, <<" ", "a">> }

\* limits.fileSize
fileSize == 10 * 1024 * 1024

\* no part named "image" in the request: req.file stays undefined
NoFile == [present |-> FALSE, extname |-> <<>>, mimetype |-> <<>>, size |-> 0]

\* an uploaded part: path.extname(file.originalname), file.mimetype and the
\* number of bytes
File(extname, mimetype, size) ==
  [present |-> TRUE, extname |-> extname, mimetype |-> mimetype, size |-> size]

FileInputs ==
  { NoFile,
    File(<<".", "J", "P", "G">>,
         <<"i", "m", "a", "g", "e", "/", "j", "p", "e", "g">>, fileSize),
    File(<<".", "j", "p", "g">>,
         <<"i", "m", "a", "g", "e", "/", "j", "p", "e", "g">>, fileSize + 1),
    File(<<".", "t", "x", "t">>,
         <<"t", "e", "x", "t", "/", "p", "l", "a", "i", "n">>, 1),
    File(<<".", "t", "x", "t">>,
         <<"t", "e", "x", "t", "/", "p", "l", "a", "i", "n">>, fileSize + 1),
    File(<<".", "p", "n", "g">>,
         <<"t", "e", "x", "t", "/", "p", "l", "a", "i", "n">>, 1),
    File(<<".", "p", "n", "g", "x">>,
         <<"t", "e", "x", "t", "/", "p", "n", "g">>, 1) }

\* String.prototype.toLowerCase on the characters in use
toLowerCase(c) ==
  CASE c = "J" -> "j" [] c = "P" -> "p" [] c = "G" -> "g" [] OTHER -> c

Lower(s) == [i \in 1..Len(s) |-> toLowerCase(s[i])]

\* the alternatives of /jpeg|jpg|png|gif|webp/
allowedTypes ==
  { <<"j", "p", "e", "g">>, <<"j", "p", "g">>, <<"p", "n", "g">>,
    <<"g", "i", "f">>, <<"w", "e", "b", "p">> }

\* RegExp.prototype.test for an unanchored alternation of literals: some
\* alternative occurs somewhere in s
test(re, s) ==
  \E w \in re :
    \E i \in 1..Len(s) :
      i + Len(w) - 1 <= Len(s) /\ SubSeq(s, i, i + Len(w) - 1) = w

\* fileFilter: extname && mimetype
fileFilter(file) ==
  /\ test(allowedTypes, Lower(file.extname))
  /\ test(allowedTypes, file.mimetype)

\* validateImageSize: server.js never requires or declares sharp, so the call
\* sharp(imagePath) throws a ReferenceError inside the try block before any
\* metadata is read, and the catch returns this result for every file
validateImageSize(imagePath) ==
  [valid |-> FALSE, message |-> "Invalid image file"]

\* req.file.location, or the URL built from req.file.filename
imageUrl(key) ==
  IF USE_SPACES THEN << "spaces", key >> ELSE << "/uploads/images/", key >>

\* a gallery response: code 0 stands for "no response sent yet"
NoGalleryResp ==
  [kind |-> "none", code |-> 0, error |-> "", data |-> <<>>, count |-> 0]

GalleryRespond(kind, code, error) ==
  [NoGalleryResp EXCEPT !.kind = kind, !.code = code, !.error = error]

\* a gallery request; users0 and images0 are history variables that
\* remember the table and the stored images it found
IdleGalleryReq ==
  [kind |-> "none", pc |-> "idle", name |-> <<>>, file |-> NoFile,
   key |-> 0, id |-> "", rows |-> <<>>, users0 |-> <<>>, images0 |-> {}]

NewGalleryReq(kind) ==
  [IdleGalleryReq EXCEPT !.kind = kind, !.users0 = users, !.images0 = images]

GalleryQuiet == \A s \in Slots : ureq[s].pc = "idle"

\* a gallery request arrives in slot r
GalleryArrives(r) ==
  /\ ureq[r].pc = "idle"
  /\ IF overlap THEN started < MaxRequests
                ELSE GalleryQuiet /\ r = CHOOSE s \in Slots : TRUE
  /\ started' = IF overlap THEN started + 1 ELSE started
  /\ overlap' = overlap
  /\ UNCHANGED votingvars
  /\ UNCHANGED << USE_SPACES, NODE_ENV >>

\* a step of a gallery request in flight
GalleryProceeds ==
  UNCHANGED << started, overlap, USE_SPACES, NODE_ENV >>
    /\ UNCHANGED votingvars

\* gallery request r goes on as rec
GalleryGoesOn(r, rec) ==
  /\ ureq' = [ureq EXCEPT ![r] = rec]
  /\ udone' = IdleGalleryReq
  /\ usent' = NoGalleryResp

\* gallery request r ends with response resp and frees its slot
GalleryEnds(r, resp) ==
  /\ ureq' = [ureq EXCEPT ![r] = IdleGalleryReq]
  /\ udone' = ureq[r]
  /\ usent' = resp

Init ==
  /\ schema \in {{}, OptionalTables}
  /\ votes = {}
  /\ nextVoteId = 1
  /\ pending_votes = <<>>
  /\ voting_config = [current_round |-> 1, status |-> "stopped"]
  /\ voting_history = <<>>
  /\ donations = <<>>
  /\ auto_reply = "Thank you for your pledge!"
  /\ lastSet = <<>>
  /\ NODE_ENV \in {"development", "production"}
  /\ req = [r \in Slots |-> IdleReq]
  /\ sent = NoResp
  /\ done = IdleReq
  /\ overlap \in BOOLEAN
  /\ started = 0
  /\ accepted = {}
  /\ USE_SPACES \in BOOLEAN
  /\ users = <<>>
  /\ images = {}
  /\ nextUuid = 0
  /\ ureq = [r \in Slots |-> IdleGalleryReq]
  /\ usent = NoGalleryResp
  /\ udone = IdleGalleryReq
  /\ submitted = {}

\* ------------------------------------------------- shared vote statements
\* the insert replacing the rows the table holds
InsertPending_Replace(phone, letter) ==
  IF "pending_votes" \in schema
    THEN pending_votes' = << [phone_number |-> phone, letter |-> letter] >>
    ELSE pending_votes' = pending_votes

\* INSERT INTO pending_votes (phone_number, letter, created_at); the
\* statement fails with "no such table" when the table is missing
InsertPending(phone, letter) ==
  IF "pending_votes" \in schema
    THEN pending_votes' =
           Append(pending_votes, [phone_number |-> phone, letter |-> letter])
    ELSE pending_votes' = pending_votes

\* INSERT INTO votes (phone_number, letter, round, created_at)
InsertVote(phone, letter, round) ==
  LET row == [id |-> nextVoteId, phone_number |-> phone,
              letter |-> letter, round |-> round]
  IN  /\ votes' = votes \cup {row}
      /\ nextVoteId' = nextVoteId + 1
      /\ accepted' = accepted \cup {row}

\* the duplicate check looking at the round before
ExistingVote_OtherRound(phone, round) ==
  \E v \in votes : v.phone_number = phone /\ v.round = round - 1

\* SELECT * FROM votes WHERE phone_number = ? AND round = ?
ExistingVote(phone, round) ==
  \E v \in votes : v.phone_number = phone /\ v.round = round

\* config?.status !== "running"
NotRunning(config) == config.status # "running"

\* ------------------------------------------------------- POST /api/votes
VoteStart(r) ==
  /\ Finished(r)
  /\ RowRoom
  /\ \E body \in VoteInputs :
       req' = [req EXCEPT ![r] =
                 [NewReq("vote") EXCEPT !.pc = "getConfig",
                                        !.phone = body[1], !.letter = body[2]]]
  /\ UNCHANGED dbvars /\ sent' = NoResp
  /\ done' = IdleReq
  /\ Arrives(r)

\* SELECT current_round, status FROM voting_config WHERE id = 1
VoteGetConfig(r) ==
  /\ req[r].kind = "vote" /\ req[r].pc = "getConfig"
  /\ req' = [req EXCEPT ![r].config = voting_config,
                        ![r].pc = IF NotRunning(voting_config)
                                    THEN "insertPending" ELSE "checkExisting"]
  /\ UNCHANGED dbvars /\ sent' = NoResp
  /\ done' = IdleReq
  /\ Proceeds

VoteInsertPending(r) ==
  /\ req[r].kind = "vote" /\ req[r].pc = "insertPending"
  /\ InsertPending(req[r].phone, toUpperCase(req[r].letter))
  /\ sent' = IF "pending_votes" \in schema
               THEN [Respond("vote", 200) EXCEPT !.pending = TRUE]
               ELSE Respond("vote", 500)
  /\ Advance(r, [req[r] EXCEPT !.pc = "done"])
  /\ UNCHANGED << schema, votes, nextVoteId, voting_config, voting_history,
                  donations, auto_reply, lastSet, accepted >>
  /\ Proceeds

VoteCheckExisting(r) ==
  /\ req[r].kind = "vote" /\ req[r].pc = "checkExisting"
  /\ IF ExistingVote(req[r].phone, RoundOr1(req[r].config))
       THEN /\ sent' = Respond("vote", 400)
            /\ Advance(r, [req[r] EXCEPT !.pc = "done"])
       ELSE /\ sent' = NoResp
            /\ Advance(r, [req[r] EXCEPT !.pc = "insertVote"])
  /\ UNCHANGED dbvars
  /\ Proceeds

VoteInsert(r) ==
  /\ req[r].kind = "vote" /\ req[r].pc = "insertVote"
  /\ InsertVote(req[r].phone, toUpperCase(req[r].letter),
                RoundOr1(req[r].config))
  /\ sent' = Respond("vote", 200)
  /\ Advance(r, [req[r] EXCEPT !.pc = "done"])
  /\ UNCHANGED << schema, pending_votes, voting_config, voting_history,
                  donations, auto_reply, lastSet >>
  /\ Proceeds

\* ------------------------------------------ POST /api/twilio/webhook
\* The handler up to the first statement: the missing-field check, the
\* choice between vote and donation, and for a vote the immediate reply.
WebhookStart(r) ==
  /\ Finished(r)
  /\ \E sms \in SmsInputs :
       LET From == sms[1]
           Body == sms[2]
           message == Trim(Body)
       IN
       IF Body = <<>>
         THEN /\ req' = req
              /\ done' = [NewReq("badsms") EXCEPT !.pc = "done",
                                                   !.phone = From]
              /\ sent' = [Respond("badsms", 400) EXCEPT
                            !.text = "Missing fields"]
       ELSE IF isSingleLetter(message)
         THEN /\ RowRoom
              /\ req' = [req EXCEPT ![r] =
                   [NewReq("sms") EXCEPT !.pc = "getConfig", !.phone = From,
                      !.message = message,
                      !.letter = toUpperCase(message[1])]]
              /\ done' = IdleReq
              /\ sent' = [Respond("sms", 200) EXCEPT
                            !.text = "<Response></Response>"]
         ELSE /\ RowRoom
              /\ req' = [req EXCEPT ![r] =
                   [NewReq("donation") EXCEPT !.pc = "getReply",
                      !.phone = From, !.message = message,
                      !.todo = {"insertDonation"}]]
              /\ done' = IdleReq
              /\ sent' = NoResp
  /\ UNCHANGED dbvars
  /\ Arrives(r)

SmsGetConfig(r) ==
  /\ req[r].kind = "sms" /\ req[r].pc = "getConfig"
  /\ req' = [req EXCEPT ![r].config = voting_config,
                        ![r].pc = IF NotRunning(voting_config)
                                    THEN "insertPending" ELSE "checkExisting"]
  /\ UNCHANGED dbvars /\ sent' = NoResp
  /\ done' = IdleReq
  /\ Proceeds

SmsInsertPending(r) ==
  /\ req[r].kind = "sms" /\ req[r].pc = "insertPending"
  /\ InsertPending(req[r].phone, req[r].letter)
  /\ Advance(r, [req[r] EXCEPT !.pc = "done"])
  /\ UNCHANGED << schema, votes, nextVoteId, voting_config, voting_history,
                  donations, auto_reply, lastSet, accepted >>
  /\ sent' = NoResp
  /\ Proceeds

SmsCheckExisting(r) ==
  /\ req[r].kind = "sms" /\ req[r].pc = "checkExisting"
  /\ IF ~ExistingVote(req[r].phone, RoundOr1(req[r].config))
       THEN Advance(r, [req[r] EXCEPT !.pc = "insertVote"])
       ELSE Advance(r, [req[r] EXCEPT !.pc = "done"])
  /\ UNCHANGED dbvars /\ sent' = NoResp
  /\ Proceeds

SmsInsert(r) ==
  /\ req[r].kind = "sms" /\ req[r].pc = "insertVote"
  /\ InsertVote(req[r].phone, req[r].letter, RoundOr1(req[r].config))
  /\ Advance(r, [req[r] EXCEPT !.pc = "done"])
  /\ UNCHANGED << schema, pending_votes, voting_config, voting_history,
                  donations, auto_reply, lastSet >>
  /\ sent' = NoResp
  /\ Proceeds

\* INSERT INTO donations (id, phone, amount, message, tags, created_at)
DonationInsert(r) ==
  /\ req[r].kind = "donation" /\ "insertDonation" \in req[r].todo
  /\ IF "donations" \in schema
       THEN donations' =
              Append(donations,
                     [phone |-> req[r].phone,
                      amount |-> DonationAmount(req[r].message),
                      message |-> Dedication(req[r].message)])
       ELSE donations' = donations
  /\ Advance(r, [req[r] EXCEPT !.todo = @ \ {"insertDonation"}])
  /\ UNCHANGED << schema, votes, nextVoteId, pending_votes, voting_config,
                  voting_history, auto_reply, lastSet, accepted >>
  /\ sent' = NoResp
  /\ Proceeds

\* SELECT value FROM app_config WHERE key = 'auto_reply_message'
DonationGetReply(r) ==
  /\ req[r].kind = "donation" /\ req[r].pc = "getReply"
  /\ sent' = [Respond("donation", 200) EXCEPT
                !.text = IF auto_reply = "" THEN "Thank you for your pledge!"
                                            ELSE auto_reply]
  /\ Advance(r, [req[r] EXCEPT !.pc = "done"])
  /\ UNCHANGED dbvars
  /\ Proceeds

\* ------------------------------------------------- DELETE /api/votes/:voteId
DeleteVoteStart(r) ==
  /\ Finished(r)
  /\ \E voteId \in 1..MaxRows :
       req' = [req EXCEPT ![r] =
                 [NewReq("delete") EXCEPT !.pc = "deleteVote",
                                          !.voteId = voteId]]
  /\ UNCHANGED dbvars /\ sent' = NoResp
  /\ done' = IdleReq
  /\ Arrives(r)

\* DELETE FROM votes WHERE id = ?
DeleteVoteRun(r) ==
  /\ req[r].kind = "delete" /\ req[r].pc = "deleteVote"
  /\ votes' = {v \in votes : v.id # req[r].voteId}
  /\ accepted' = {v \in accepted : v.id # req[r].voteId}
  /\ sent' = Respond("delete", 200)
  /\ Advance(r, [req[r] EXCEPT !.pc = "done"])
  /\ UNCHANGED << schema, nextVoteId, pending_votes, voting_config,
                  voting_history, donations, auto_reply, lastSet >>
  /\ Proceeds

\* -------------------------------------------------- POST /api/votes/status
\* config?.status || "stopped"
oldStatus(config) == IF config.status = "" THEN "stopped" ELSE config.status

\* the test without the comparison with the old status
ClosesRound_Always(status, config) == status = "stopped"

\* status === "stopped" && oldStatus !== "stopped"
ClosesRound(status, config) ==
  status = "stopped" /\ oldStatus(config) # "stopped"

\* room for one more round
RoundRoom ==
  voting_config.current_round + InFlight({"status"}) < MaxRound

StatusStart(r) ==
  /\ Finished(r)
  /\ \E status \in StatusInputs :
       /\ status = "stopped" => RoundRoom
       /\ req' = [req EXCEPT ![r] =
                    [NewReq("status") EXCEPT !.pc = "getConfig",
                                             !.status = status]]
  /\ UNCHANGED dbvars /\ sent' = NoResp
  /\ done' = IdleReq
  /\ Arrives(r)

\* pending votes discarded on the wrong transition
DiscardsPending_OnStop(status) == status = "stopped"

\* status === "running": the else branch discards the pending votes
DiscardsPending(status) == status = "running"

\* SELECT * FROM voting_config WHERE id = 1, and the branch its callback
\* takes; the else branch issues DELETE FROM pending_votes (for "running")
\* and the UPDATE together
StatusGetConfig(r) ==
  /\ req[r].kind = "status" /\ req[r].pc = "getConfig"
  /\ IF ClosesRound(req[r].status, voting_config)
       THEN req' = [req EXCEPT ![r].config = voting_config,
                               ![r].pc = "selectRoundVotes"]
       ELSE req' = [req EXCEPT ![r].config = voting_config,
                               ![r].pc = "updateStatus",
                               ![r].todo = IF DiscardsPending(req[r].status)
                                             THEN {"deletePending"} ELSE {}]
  /\ UNCHANGED dbvars /\ sent' = NoResp
  /\ done' = IdleReq
  /\ Proceeds

\* SELECT * FROM votes WHERE round = ?
RoundVotes(round) == RowsById({v \in votes : v.round = round})

\* the archive written for every round
Archives_Always(roundVotes) == Len(roundVotes) >= 0

\* roundVotes.length > 0: only a round with votes is archived
Archives(roundVotes) == Len(roundVotes) > 0

\* SELECT * FROM votes WHERE round = ?; its callback issues the archive
\* insert (only for a round with votes), the delete and the update together
StatusSelectRoundVotes(r) ==
  /\ req[r].kind = "status" /\ req[r].pc = "selectRoundVotes"
  /\ LET roundVotes == RoundVotes(req[r].config.current_round) IN
       req' = [req EXCEPT ![r].roundVotes = roundVotes,
                          ![r].pc = "updateConfig",
                          ![r].todo = IF Archives(roundVotes)
                                        THEN {"insertHistory", "deleteVotes"}
                                        ELSE {"deleteVotes"}]
  /\ UNCHANGED dbvars /\ sent' = NoResp
  /\ done' = IdleReq
  /\ Proceeds

\* the archive row replacing the table instead of being added to it
InsertHistory_Replace(round, roundVotes) ==
  voting_history' =
    << [round |-> round, votes_json |-> JSONstringify(roundVotes)] >>

\* INSERT INTO voting_history (round, votes_json, ended_at)
InsertHistory(round, roundVotes) ==
  voting_history' =
    Append(voting_history,
           [round |-> round, votes_json |-> JSONstringify(roundVotes)])

StatusInsertHistory(r) ==
  /\ req[r].kind = "status" /\ "insertHistory" \in req[r].todo
  /\ InsertHistory(req[r].config.current_round, req[r].roundVotes)
  /\ Advance(r, [req[r] EXCEPT !.todo = @ \ {"insertHistory"}])
  /\ UNCHANGED << schema, votes, nextVoteId, pending_votes, voting_config,
                  donations, auto_reply, lastSet, accepted >>
  /\ sent' = NoResp
  /\ Proceeds

\* the delete addressing the round after
DeleteRoundVotes_NextRound(round) ==
  votes' = {v \in votes : v.round # round + 1}

\* DELETE FROM votes WHERE round = ?
DeleteRoundVotes(round) == votes' = {v \in votes : v.round # round}

StatusDeleteVotes(r) ==
  /\ req[r].kind = "status" /\ "deleteVotes" \in req[r].todo
  /\ DeleteRoundVotes(req[r].config.current_round)
  /\ Advance(r, [req[r] EXCEPT !.todo = @ \ {"deleteVotes"}])
  /\ UNCHANGED << schema, nextVoteId, pending_votes, voting_config,
                  voting_history, donations, auto_reply, lastSet, accepted >>
  /\ sent' = NoResp
  /\ Proceeds

\* current_round = current_round + 1
NextRound(round) == round + 1

\* UPDATE voting_config SET status = ?, current_round = current_round + 1
StatusUpdateConfig(r) ==
  /\ req[r].kind = "status" /\ req[r].pc = "updateConfig"
  /\ voting_config' =
       [status |-> req[r].status,
        current_round |-> NextRound(voting_config.current_round)]
  /\ req' = [req EXCEPT ![r].pc = "getNewConfig"]
  /\ UNCHANGED << schema, votes, nextVoteId, pending_votes, voting_history,
                  donations, auto_reply, lastSet, accepted >>
  /\ sent' = NoResp
  /\ done' = IdleReq
  /\ Proceeds

\* SELECT * FROM voting_config WHERE id = 1, answered to the client
StatusGetNewConfig(r) ==
  /\ req[r].kind = "status" /\ req[r].pc = "getNewConfig"
  /\ sent' = [Respond("status", 200) EXCEPT
                !.currentRound = RoundOr1(voting_config),
                !.roundStatus = oldStatus(voting_config)]
  /\ Advance(r, [req[r] EXCEPT !.pc = "done"])
  /\ UNCHANGED dbvars
  /\ Proceeds

\* DELETE FROM pending_votes; fails, logged only, when the table is missing
StatusDeletePending(r) ==
  /\ req[r].kind = "status" /\ "deletePending" \in req[r].todo
  /\ pending_votes' = IF "pending_votes" \in schema THEN <<>>
                                                    ELSE pending_votes
  /\ Advance(r, [req[r] EXCEPT !.todo = @ \ {"deletePending"}])
  /\ UNCHANGED << schema, votes, nextVoteId, voting_config, voting_history,
                  donations, auto_reply, lastSet, accepted >>
  /\ sent' = NoResp
  /\ Proceeds

\* UPDATE voting_config SET status = ? WHERE id = 1
StatusUpdateStatus(r) ==
  /\ req[r].kind = "status" /\ req[r].pc = "updateStatus"
  /\ voting_config' = [voting_config EXCEPT !.status = req[r].status]
  /\ sent' = [Respond("status", 200) EXCEPT
                !.currentRound = RoundOr1(req[r].config),
                !.roundStatus = req[r].status]
  /\ Advance(r, [req[r] EXCEPT !.pc = "done"])
  /\ UNCHANGED << schema, votes, nextVoteId, pending_votes, voting_history,
                  donations, auto_reply, lastSet, accepted >>
  /\ Proceeds

\* --------------------------------------------------- POST /api/votes/clear
ClearStart(r) ==
  /\ Finished(r)
  /\ req' = [req EXCEPT ![r] =
               [NewReq("clear") EXCEPT !.pc = "getConfig"]]
  /\ UNCHANGED dbvars /\ sent' = NoResp
  /\ done' = IdleReq
  /\ Arrives(r)

ClearGetConfig(r) ==
  /\ req[r].kind = "clear" /\ req[r].pc = "getConfig"
  /\ req' = [req EXCEPT ![r].config = voting_config,
                        ![r].pc = "selectRoundVotes"]
  /\ UNCHANGED dbvars /\ sent' = NoResp
  /\ done' = IdleReq
  /\ Proceeds

\* SELECT * FROM votes WHERE round = ?; its callback issues the archive
\* insert (only for a round with votes) and the delete together
ClearSelectRoundVotes(r) ==
  /\ req[r].kind = "clear" /\ req[r].pc = "selectRoundVotes"
  /\ LET roundVotes == RoundVotes(req[r].config.current_round) IN
       req' = [req EXCEPT ![r].roundVotes = roundVotes,
                          ![r].pc = "deleteVotes",
                          ![r].todo = IF Archives(roundVotes)
                                        THEN {"insertHistory"} ELSE {}]
  /\ UNCHANGED dbvars /\ sent' = NoResp
  /\ done' = IdleReq
  /\ Proceeds

ClearInsertHistory(r) ==
  /\ req[r].kind = "clear" /\ "insertHistory" \in req[r].todo
  /\ InsertHistory(req[r].config.current_round, req[r].roundVotes)
  /\ Advance(r, [req[r] EXCEPT !.todo = @ \ {"insertHistory"}])
  /\ UNCHANGED << schema, votes, nextVoteId, pending_votes, voting_config,
                  donations, auto_reply, lastSet, accepted >>
  /\ sent' = NoResp
  /\ Proceeds

ClearDeleteVotes(r) ==
  /\ req[r].kind = "clear" /\ req[r].pc = "deleteVotes"
  /\ DeleteRoundVotes(req[r].config.current_round)
  /\ req' = [req EXCEPT ![r].pc = "updateStatus"]
  /\ UNCHANGED << schema, nextVoteId, pending_votes, voting_config,
                  voting_history, donations, auto_reply, lastSet, accepted >>
  /\ sent' = NoResp
  /\ done' = IdleReq
  /\ Proceeds

\* UPDATE voting_config SET status = 'stopped' WHERE id = 1
ClearUpdateStatus(r) ==
  /\ req[r].kind = "clear" /\ req[r].pc = "updateStatus"
  /\ voting_config' = [voting_config EXCEPT !.status = "stopped"]
  /\ sent' = Respond("clear", 200)
  /\ Advance(r, [req[r] EXCEPT !.pc = "done"])
  /\ UNCHANGED << schema, votes, nextVoteId, pending_votes, voting_history,
                  donations, auto_reply, lastSet, accepted >>
  /\ Proceeds

\* ------------------------------------------------------- specifications
Next ==
  \E r \in Slots :
    \/ VoteStart(r)
    \/ VoteGetConfig(r)
    \/ VoteInsertPending(r)
    \/ VoteCheckExisting(r)
    \/ VoteInsert(r)
    \/ WebhookStart(r)
    \/ SmsGetConfig(r)
    \/ SmsInsertPending(r)
    \/ SmsCheckExisting(r)
    \/ SmsInsert(r)
    \/ DonationInsert(r)
    \/ DonationGetReply(r)
    \/ DeleteVoteStart(r)
    \/ DeleteVoteRun(r)
    \/ StatusStart(r)
    \/ StatusGetConfig(r)
    \/ StatusSelectRoundVotes(r)
    \/ StatusInsertHistory(r)
    \/ StatusDeleteVotes(r)
    \/ StatusUpdateConfig(r)
    \/ StatusGetNewConfig(r)
    \/ StatusDeletePending(r)
    \/ StatusUpdateStatus(r)
    \/ ClearStart(r)
    \/ ClearGetConfig(r)
    \/ ClearSelectRoundVotes(r)
    \/ ClearInsertHistory(r)
    \/ ClearDeleteVotes(r)
    \/ ClearUpdateStatus(r)

\* requests arrive at any time and their statements interleave
\* (the storage backend plays no part in the voting routes)
OverlapInit ==
  /\ Init /\ overlap = TRUE /\ USE_SPACES = FALSE
  /\ NODE_ENV = "development"

Spec == OverlapInit /\ [][Next]_vars

\* requests arrive one at a time: none arrives while another is in flight
SeqInit ==
  /\ Init /\ overlap = FALSE /\ USE_SPACES = FALSE
  /\ NODE_ENV = "development"

SeqSpec == SeqInit /\ [][Next]_vars

\* ------------------------------------------------------- GET /api/votes
\* ORDER BY created_at DESC, ORDER BY ended_at DESC: latest row first
Reverse(rows) == [i \in 1..Len(rows) |-> rows[Len(rows) + 1 - i]]

\* a GET /api/votes arrives; it changes no table and is not counted among
\* the requests of the run
GetVotesStart(r) ==
  /\ Finished(r)
  /\ IF overlap THEN TRUE ELSE Quiet /\ r = CHOOSE s \in Slots : TRUE
  /\ req' = [req EXCEPT ![r] =
               [NewReq("getVotes") EXCEPT !.pc = "selectVotes"]]
  /\ done' = IdleReq /\ sent' = NoResp
  /\ UNCHANGED dbvars
  /\ Proceeds

\* SELECT * FROM votes ORDER BY created_at DESC
GetVotesSelectVotes(r) ==
  /\ req[r].kind = "getVotes" /\ req[r].pc = "selectVotes"
  /\ req' = [req EXCEPT ![r].roundVotes = Reverse(RowsById(votes)),
                        ![r].pc = "selectConfig"]
  /\ done' = IdleReq /\ sent' = NoResp
  /\ UNCHANGED dbvars
  /\ Proceeds

\* SELECT * FROM voting_config WHERE id = 1
GetVotesSelectConfig(r) ==
  /\ req[r].kind = "getVotes" /\ req[r].pc = "selectConfig"
  /\ req' = [req EXCEPT ![r].config = voting_config,
                        ![r].pc = "selectHistory"]
  /\ done' = IdleReq /\ sent' = NoResp
  /\ UNCHANGED dbvars
  /\ Proceeds

\* SELECT * FROM voting_history ORDER BY ended_at DESC
GetVotesSelectHistory(r) ==
  /\ req[r].kind = "getVotes" /\ req[r].pc = "selectHistory"
  /\ req' = [req EXCEPT ![r].history = Reverse(voting_history),
                        ![r].pc = "selectPending"]
  /\ done' = IdleReq /\ sent' = NoResp
  /\ UNCHANGED dbvars
  /\ Proceeds

\* SELECT * FROM pending_votes ORDER BY created_at DESC (pendingVotes || []
\* when the table is missing), and the response
GetVotesSelectPending(r) ==
  /\ req[r].kind = "getVotes" /\ req[r].pc = "selectPending"
  /\ sent' = [Respond("getVotes", 200) EXCEPT
                !.currentRound = RoundOr1(req[r].config),
                !.roundStatus = oldStatus(req[r].config),
                !.votes = req[r].roundVotes,
                !.pendingVotes = Reverse(pending_votes),
                !.roundHistory =
                  [i \in 1..Len(req[r].history) |->
                     [round |-> req[r].history[i].round,
                      votes |-> JSONparse(req[r].history[i].votes_json)]]]
  /\ Advance(r, [req[r] EXCEPT !.pc = "done"])
  /\ UNCHANGED dbvars
  /\ Proceeds

\* votes, status changes and reads of the voting state
ReadNext ==
  \E r \in Slots :
    \/ VoteStart(r)
    \/ VoteGetConfig(r)
    \/ VoteInsertPending(r)
    \/ VoteCheckExisting(r)
    \/ VoteInsert(r)
    \/ StatusStart(r)
    \/ StatusGetConfig(r)
    \/ StatusSelectRoundVotes(r)
    \/ StatusInsertHistory(r)
    \/ StatusDeleteVotes(r)
    \/ StatusUpdateConfig(r)
    \/ StatusGetNewConfig(r)
    \/ StatusDeletePending(r)
    \/ StatusUpdateStatus(r)
    \/ GetVotesStart(r)
    \/ GetVotesSelectVotes(r)
    \/ GetVotesSelectConfig(r)
    \/ GetVotesSelectHistory(r)
    \/ GetVotesSelectPending(r)

ReadSpec == OverlapInit /\ [][ReadNext]_vars

\* ------------------------------------ /api/config/auto_reply_message
\* req.body.value: << >> stands for a body without value (undefined)
ValueInputs == { << >>, << "" >>, << "v1" >>, << "v2" >> }

\* the statement keeping the row the key already has
upsert_Ignore(old, value) == old

\* INSERT INTO app_config ... ON CONFLICT(key) DO UPDATE SET value =
\* excluded.value: the value of the key afterwards
upsert(old, value) == value

\* POST /api/config/:key; value === undefined is answered at once
ConfigSetStart(r) ==
  /\ Finished(r)
  /\ \E value \in ValueInputs :
       IF value = << >>
         THEN /\ req' = req
              /\ done' = [NewReq("setConfig") EXCEPT !.pc = "done"]
              /\ sent' = [Respond("setConfig", 400) EXCEPT
                            !.text = "Value is required"]
         ELSE /\ req' = [req EXCEPT ![r] =
                   [NewReq("setConfig") EXCEPT !.pc = "upsert",
                                               !.value = value]]
              /\ done' = IdleReq
              /\ sent' = NoResp
  /\ UNCHANGED dbvars
  /\ Arrives(r)

\* the upsert and the response of its callback
ConfigSetRun(r) ==
  /\ req[r].kind = "setConfig" /\ req[r].pc = "upsert"
  /\ auto_reply' = upsert(auto_reply, req[r].value[1])
  /\ lastSet' = req[r].value
  /\ sent' = [Respond("setConfig", 200) EXCEPT !.value = req[r].value[1]]
  /\ Advance(r, [req[r] EXCEPT !.pc = "done"])
  /\ UNCHANGED << schema, votes, nextVoteId, pending_votes, voting_config,
                  voting_history, donations, accepted >>
  /\ Proceeds

\* GET /api/config/:key
ConfigGetStart(r) ==
  /\ Finished(r)
  /\ req' = [req EXCEPT ![r] = [NewReq("getConfig") EXCEPT !.pc = "select"]]
  /\ done' = IdleReq /\ sent' = NoResp
  /\ UNCHANGED dbvars
  /\ Arrives(r)

\* SELECT value, updated_at FROM app_config WHERE key = ?; the row of
\* auto_reply_message is there since the start of the server
ConfigGetRun(r) ==
  /\ req[r].kind = "getConfig" /\ req[r].pc = "select"
  /\ sent' = [Respond("getConfig", 200) EXCEPT !.value = auto_reply]
  /\ Advance(r, [req[r] EXCEPT !.pc = "done"])
  /\ UNCHANGED dbvars
  /\ Proceeds

\* ------------------------------------------- requests no route matches
Methods == {"GET", "HEAD", "POST", "PUT", "DELETE"}

\* paths, as their segments, that none of the routes matches
UnmatchedPaths == { << "api", "nothing" >>, << "nothing" >> }

\* the mount path "/api/*"
IsApiPath(path) == Len(path) > 1 /\ path[1] = "api"

\* what remains of the stack for a request that no route above matched:
\* app.get("*") in production (a GET route also serves HEAD), the error
\* middleware (skipped, no error) and app.use("/api/*"); after those the
\* 404 of Express itself. built says whether build/index.html is there.
Unmatched(method, path, built) ==
  IF NODE_ENV = "production" /\ method \in {"GET", "HEAD"}
    THEN IF built
           THEN [Respond("unmatched", 200) EXCEPT !.text = "index.html"]
           ELSE [Respond("unmatched", 500) EXCEPT
                   !.text = "Internal server error"]
  ELSE IF IsApiPath(path)
    THEN [Respond("unmatched", 404) EXCEPT !.text = "API route not found"]
    ELSE [Respond("unmatched", 404) EXCEPT !.text = "Cannot " \o method]

UnmatchedRoute(r) ==
  /\ Finished(r)
  /\ \E method \in Methods, path \in UnmatchedPaths, built \in BOOLEAN :
       /\ done' = [NewReq("unmatched") EXCEPT !.pc = "done",
                                              !.method = method,
                                              !.path = path]
       /\ sent' = Unmatched(method, path, built)
  /\ req' = req
  /\ UNCHANGED dbvars
  /\ Arrives(r)

\* the config routes, the SMS webhook and the end of the route stack
ConfigNext ==
  \E r \in Slots :
    \/ ConfigSetStart(r)
    \/ ConfigSetRun(r)
    \/ ConfigGetStart(r)
    \/ ConfigGetRun(r)
    \/ WebhookStart(r)
    \/ SmsGetConfig(r)
    \/ SmsInsertPending(r)
    \/ DonationInsert(r)
    \/ DonationGetReply(r)
    \/ UnmatchedRoute(r)

\* requests handled one at a time, in development or in production
ConfigInit == Init /\ overlap = FALSE /\ USE_SPACES = FALSE

ConfigSpec == ConfigInit /\ [][ConfigNext]_vars

\* ------------------------------------------------- POST /api/submit
\* room for one more upload
UploadRoom ==
  nextUuid
    + Cardinality({s \in Slots : ureq[s].pc = "upload" /\ ureq[s].file.present})
    < MaxUploads

\* the name check without the trim
NameMissing_NoTrim(name) == name = <<>>

\* !name || !name.trim()
NameMissing(name) == name = <<>> \/ Trim(name) = <<>>

\* the users row of a submission
UserRow(id, name, key) ==
  [id |-> id, name |-> Trim(name), image_path |-> key,
   image_url |-> imageUrl(key)]

\* the columns GET /api/users and the 201 response show
Public(row) ==
  [id |-> row.id, name |-> row.name, image_url |-> row.image_url]

\* the size limit switched off
LIMIT_FILE_SIZE_Off(file) == FALSE

\* multer ends the upload with MulterError LIMIT_FILE_SIZE when the part has
\* more bytes than limits.fileSize
LIMIT_FILE_SIZE(file) == file.size > fileSize

SubmitStart(r) ==
  /\ \E name \in NameInputs, file \in FileInputs :
       /\ file.present => UploadRoom
       /\ ureq' = [ureq EXCEPT ![r] =
            [NewGalleryReq("submit") EXCEPT !.pc = "upload", !.name = name,
                                            !.file = file]]
  /\ udone' = IdleGalleryReq /\ usent' = NoGalleryResp
  /\ UNCHANGED << users, images, nextUuid, submitted >>
  /\ GalleryArrives(r)

\* upload.single("image") and, when it calls next(), the handler up to its
\* first database statement.  A file the filter refuses or that exceeds
\* limits.fileSize goes to the error middleware and leaves nothing stored.
SubmitUpload(r) ==
  /\ ureq[r].kind = "submit" /\ ureq[r].pc = "upload"
  /\ LET file == ureq[r].file
         name == ureq[r].name
         key == nextUuid + 1
     IN
     IF ~file.present
       THEN /\ GalleryEnds(r, GalleryRespond("submit", 400,
                 IF NameMissing(name) THEN "Name is required"
                                      ELSE "Image is required"))
            /\ UNCHANGED << images, nextUuid >>
     ELSE IF ~fileFilter(file)
       THEN /\ GalleryEnds(r, GalleryRespond("submit", 400,
                 "Only image files (JPG, PNG, GIF, WebP) are allowed!"))
            /\ UNCHANGED << images, nextUuid >>
     ELSE IF LIMIT_FILE_SIZE(file)
       THEN /\ GalleryEnds(r, GalleryRespond("submit", 400,
                 "File too large. Maximum size is 10MB."))
            /\ UNCHANGED << images, nextUuid >>
     ELSE /\ nextUuid' = key
          /\ IF NameMissing(name)
               THEN /\ images' = images \cup {key}
                    /\ GalleryEnds(r, GalleryRespond("submit", 400,
                                                     "Name is required"))
             ELSE IF ~USE_SPACES /\ ~validateImageSize(key).valid
               THEN /\ images' = images
                    /\ GalleryEnds(r, GalleryRespond("submit", 400,
                                      validateImageSize(key).message))
             ELSE /\ images' = images \cup {key}
                  /\ \E userId \in Ids :
                       GalleryGoesOn(r, [ureq[r] EXCEPT !.pc = "insert",
                                           !.key = key, !.id = userId])
  /\ UNCHANGED << users, submitted >>
  /\ GalleryProceeds

\* INSERT INTO users (id, name, image_path, image_url); id is the primary key
SubmitInsert(r) ==
  /\ ureq[r].kind = "submit" /\ ureq[r].pc = "insert"
  /\ LET row == UserRow(ureq[r].id, ureq[r].name, ureq[r].key)
     IN
     IF \E i \in 1..Len(users) : users[i].id = row.id
       THEN /\ images' = IF USE_SPACES THEN images
                                       ELSE images \ {ureq[r].key}
            /\ GalleryEnds(r, GalleryRespond("submit", 500,
                                             "Internal server error"))
            /\ UNCHANGED << users, submitted >>
       ELSE /\ users' = Append(users, row)
            /\ submitted' = submitted \cup {row.id}
            /\ GalleryEnds(r, [GalleryRespond("submit", 201, "") EXCEPT
                                 !.data = << Public(row) >>])
            /\ UNCHANGED images
  /\ UNCHANGED nextUuid
  /\ GalleryProceeds

\* ---------------------------------------------------- GET /api/users
GetUsersStart(r) ==
  /\ ureq' = [ureq EXCEPT ![r] =
                [NewGalleryReq("getUsers") EXCEPT !.pc = "select"]]
  /\ udone' = IdleGalleryReq /\ usent' = NoGalleryResp
  /\ UNCHANGED << users, images, nextUuid, submitted >>
  /\ GalleryArrives(r)

\* the select returning the latest row only
SelectUsers_Latest ==
  [i \in 1..(IF Len(users) > 0 THEN 1 ELSE 0) |-> Public(users[Len(users)])]

\* SELECT id, name, image_url, created_at FROM users ORDER BY created_at DESC
\* (rows are shown latest first)
SelectUsers ==
  [i \in 1..Len(users) |-> Public(users[Len(users) + 1 - i])]

GetUsersRun(r) ==
  /\ ureq[r].kind = "getUsers" /\ ureq[r].pc = "select"
  /\ GalleryEnds(r, [GalleryRespond("getUsers", 200, "") EXCEPT
                       !.data = SelectUsers, !.count = Len(SelectUsers)])
  /\ UNCHANGED << users, images, nextUuid, submitted >>
  /\ GalleryProceeds

\* ------------------------------------------------ GET /api/users/:id
GetUserStart(r) ==
  /\ \E id \in Ids :
       ureq' = [ureq EXCEPT ![r] =
                  [NewGalleryReq("getUser") EXCEPT !.pc = "select",
                                                   !.id = id]]
  /\ udone' = IdleGalleryReq /\ usent' = NoGalleryResp
  /\ UNCHANGED << users, images, nextUuid, submitted >>
  /\ GalleryArrives(r)

\* the select without its WHERE clause
SelectUser_Any(id) == users

\* SELECT id, name, image_url, image_path, created_at FROM users WHERE id = ?
SelectUser(id) == SelectSeq(users, LAMBDA row : row.id = id)

GetUserRun(r) ==
  /\ ureq[r].kind = "getUser" /\ ureq[r].pc = "select"
  /\ LET row == SelectUser(ureq[r].id)
     IN  IF row = <<>>
           THEN GalleryEnds(r, GalleryRespond("getUser", 404,
                                              "User not found"))
           ELSE GalleryEnds(r, [GalleryRespond("getUser", 200, "") EXCEPT
                                  !.data = << row[1] >>])
  /\ UNCHANGED << users, images, nextUuid, submitted >>
  /\ GalleryProceeds

\* ---------------------------------------------------- DELETE /api/users
DeleteUsersStart(r) ==
  /\ ureq' = [ureq EXCEPT ![r] =
                [NewGalleryReq("deleteUsers") EXCEPT !.pc = "select"]]
  /\ udone' = IdleGalleryReq /\ usent' = NoGalleryResp
  /\ UNCHANGED << users, images, nextUuid, submitted >>
  /\ GalleryArrives(r)

\* SELECT id, image_path FROM users
DeleteUsersSelect(r) ==
  /\ ureq[r].kind = "deleteUsers" /\ ureq[r].pc = "select"
  /\ GalleryGoesOn(r, [ureq[r] EXCEPT
       !.rows = users,
       !.pc = IF USE_SPACES /\ Len(users) > 0 THEN "deleteObjects"
                                               ELSE "deleteRows"])
  /\ UNCHANGED << users, images, nextUuid, submitted >>
  /\ GalleryProceeds

\* spacesEndpoint.deleteObject for every row selected
DeleteUsersObjects(r) ==
  /\ ureq[r].kind = "deleteUsers" /\ ureq[r].pc = "deleteObjects"
  /\ images' = images \ {ureq[r].rows[i].image_path :
                           i \in 1..Len(ureq[r].rows)}
  /\ GalleryGoesOn(r, [ureq[r] EXCEPT !.pc = "deleteRows"])
  /\ UNCHANGED << users, nextUuid, submitted >>
  /\ GalleryProceeds

\* DELETE FROM users
DeleteUsersRows(r) ==
  /\ ureq[r].kind = "deleteUsers" /\ ureq[r].pc = "deleteRows"
  /\ users' = <<>>
  /\ submitted' = {}
  /\ GalleryEnds(r, GalleryRespond("deleteUsers", 200, ""))
  /\ UNCHANGED << images, nextUuid >>
  /\ GalleryProceeds

GalleryNext ==
  \E r \in Slots :
    \/ SubmitStart(r)
    \/ SubmitUpload(r)
    \/ SubmitInsert(r)
    \/ GetUsersStart(r)
    \/ GetUsersRun(r)
    \/ GetUserStart(r)
    \/ GetUserRun(r)
    \/ DeleteUsersStart(r)
    \/ DeleteUsersSelect(r)
    \/ DeleteUsersObjects(r)
    \/ DeleteUsersRows(r)

\* the gallery routes on the database of init-db.js, requests overlapping
GalleryInit ==
  /\ Init /\ overlap = TRUE /\ schema = {}
  /\ NODE_ENV = "development"

GallerySpec == GalleryInit /\ [][GalleryNext]_vars

\* the gallery routes, requests handled one at a time
GallerySeqInit ==
  /\ Init /\ overlap = FALSE /\ schema = {}
  /\ NODE_ENV = "development"

GallerySeqSpec == GallerySeqInit /\ [][GalleryNext]_vars

\* ---------------------------------------------------- PUT /api/users/:id
\* the name check, answered at once when it fails
PutStart(r) ==
  /\ \E id \in Ids, name \in NameInputs :
       LET rec == [NewGalleryReq("put") EXCEPT !.id = id, !.name = name]
       IN
       IF NameMissing(name)
         THEN /\ ureq' = ureq
              /\ udone' = rec
              /\ usent' = GalleryRespond("put", 400, "Name is required")
         ELSE GalleryGoesOn(r, [rec EXCEPT !.pc = "check"])
  /\ UNCHANGED << users, images, nextUuid, submitted >>
  /\ GalleryArrives(r)

\* SELECT id FROM users WHERE id = ?
PutCheck(r) ==
  /\ ureq[r].kind = "put" /\ ureq[r].pc = "check"
  /\ IF \E i \in 1..Len(users) : users[i].id = ureq[r].id
       THEN GalleryGoesOn(r, [ureq[r] EXCEPT !.pc = "update"])
       ELSE GalleryEnds(r, GalleryRespond("put", 404, "User not found"))
  /\ UNCHANGED << users, images, nextUuid, submitted >>
  /\ GalleryProceeds

\* UPDATE users SET name = ? WHERE id = ?, and this.changes === 0
PutUpdate(r) ==
  /\ ureq[r].kind = "put" /\ ureq[r].pc = "update"
  /\ users' = [i \in 1..Len(users) |->
                 IF users[i].id = ureq[r].id
                   THEN [users[i] EXCEPT !.name = Trim(ureq[r].name)]
                   ELSE users[i]]
  /\ IF \E i \in 1..Len(users) : users[i].id = ureq[r].id
       THEN GalleryGoesOn(r, [ureq[r] EXCEPT !.pc = "fetch"])
       ELSE GalleryEnds(r, GalleryRespond("put", 404, "User not found"))
  /\ UNCHANGED << images, nextUuid, submitted >>
  /\ GalleryProceeds

\* SELECT id, name, image_url, image_path, created_at FROM users WHERE id = ?
\* Without a row, updatedRow.name throws inside the database callback:
\* nothing catches it, so the process ends, no response is sent and the
\* requests in flight are lost (the tables stay, the server is started anew).
PutFetch(r) ==
  /\ ureq[r].kind = "put" /\ ureq[r].pc = "fetch"
  /\ LET rows == SelectSeq(users, LAMBDA u : u.id = ureq[r].id)
     IN
     IF rows # << >>
       THEN GalleryEnds(r, [GalleryRespond("put", 200, "") EXCEPT
                              !.data = << rows[1] >>])
       ELSE /\ ureq' = [s \in Slots |-> IdleGalleryReq]
            /\ udone' = ureq[r]
            /\ usent' = NoGalleryResp
  /\ UNCHANGED << users, images, nextUuid, submitted >>
  /\ GalleryProceeds

\* submissions, renames and the clearing of the gallery
RenameNext ==
  \E r \in Slots :
    \/ SubmitStart(r)
    \/ SubmitUpload(r)
    \/ SubmitInsert(r)
    \/ PutStart(r)
    \/ PutCheck(r)
    \/ PutUpdate(r)
    \/ PutFetch(r)
    \/ DeleteUsersStart(r)
    \/ DeleteUsersSelect(r)
    \/ DeleteUsersObjects(r)
    \/ DeleteUsersRows(r)

RenameSpec == GalleryInit /\ [][RenameNext]_vars

\* ------------------------------------------------------------- properties
\* The properties below look at the request that has just completed (done),
\* at the response of the last step (sent) and at the tables.

\* a completed status request that took the round-closing branch
Closing(rec) == rec.kind = "status" /\ ClosesRound(rec.status, rec.config)

RowsOfRound(rows, round) == {v \in rows : v.round = round}

\* the votes rows a history row holds
Snapshot(h) == Range(JSONparse(h.votes_json))

\* the history rows added since the table looked like history0
AddedHistory(history0) ==
  SubSeq(voting_history, Len(history0) + 1, Len(voting_history))

\* a completed vote (HTTP or SMS) that found voting not running
CastWhileNotRunning(rec) ==
  rec.kind \in {"vote", "sms"} /\ NotRunning(rec.config)

\* C1: a vote cast while the status is not "running" is stored as a row of
\* pending_votes, adds no row to votes, and POST /api/votes answers success
\* with pending = true.
C1_PendingStored ==
  CastWhileNotRunning(done) =>
    /\ pending_votes =
         Append(done.pending0, [phone_number |-> done.phone,
                                letter |-> toUpperCase(done.letter)])
    /\ votes = done.votes0
    /\ done.kind = "vote" => sent.code = 200 /\ sent.pending

\* C2 as stated: a round-closing status request that ran alone has added one
\* snapshot holding exactly the votes rows of the round, and votes holds no
\* row of that round.
C2_SnapshotAlways ==
  Closing(done) =>
    LET k == done.config.current_round
        added == AddedHistory(done.history0)
    IN  /\ Len(added) = 1
        /\ added[1].round = k
        /\ Snapshot(added[1]) = RowsOfRound(done.votes0, k)
        /\ RowsOfRound(votes, k) = {}

\* C2 (amended): a round-closing status request that ran alone has, when the
\* round held at least one vote, added one snapshot holding exactly the votes
\* rows of the round; in every case votes holds no row of that round.
C2_SnapshotOfVotes ==
  Closing(done) =>
    LET k == done.config.current_round
        added == AddedHistory(done.history0)
    IN  /\ RowsOfRound(done.votes0, k) # {} =>
             /\ Len(added) = 1
             /\ added[1].round = k
             /\ Snapshot(added[1]) = RowsOfRound(done.votes0, k)
        /\ SubSeq(voting_history, 1, Len(done.history0)) = done.history0
        /\ RowsOfRound(votes, k) = {}

C2_Witness ==
  /\ Closing(done)
  /\ RowsOfRound(done.votes0, done.config.current_round) # {}
  /\ Len(voting_history) = Len(done.history0) + 1
  /\ votes = {}

\* a completed vote (HTTP or SMS) from a phone that had already voted in the
\* current round while voting was running
DuplicateVote(rec) ==
  /\ rec.kind \in {"vote", "sms"}
  /\ rec.config.status = "running"
  /\ \E v \in rec.votes0 :
       v.phone_number = rec.phone /\ v.round = rec.config.current_round

\* C3: while voting is running, a further vote of a phone that already has a
\* votes row in the current round is rejected: POST /api/votes answers 400,
\* an SMS vote is dropped, and votes is unchanged.
C3_DuplicateRejected ==
  DuplicateVote(done) =>
    /\ votes = done.votes0
    /\ pending_votes = done.pending0
    /\ done.kind = "vote" => sent.code = 400

C3_Witness ==
  /\ DuplicateVote(done)
  /\ done.kind = "vote"
  /\ sent.code = 400
  /\ votes # {}

\* C4: votes holds at most one row per (phone_number, round), under any
\* interleaving of vote requests.
C4_OneVotePerPhoneAndRound ==
  \A v, w \in votes :
    v.phone_number = w.phone_number /\ v.round = w.round => v = w

\* some history row of the vote's round holds the vote
Archived(v) ==
  \E i \in 1..Len(voting_history) :
    voting_history[i].round = v.round /\ v \in Snapshot(voting_history[i])

\* C5: no accepted vote is lost: once no archiving request is in flight,
\* every vote whose insert succeeded (and that was not deleted by id) is in
\* votes or in a history snapshot of its round.
C5_NoAcceptedVoteLost ==
  (\A s \in Slots : req[s].kind \notin {"status", "clear"}) =>
    \A v \in accepted : v \in votes \/ Archived(v)

\* C6: when a status request with status "running" has completed,
\* pending_votes is empty and the request has left votes and voting_history
\* as they were.
C6_RunningDiscardsPending ==
  (done.kind = "status" /\ done.status = "running") =>
    /\ pending_votes = <<>>
    /\ votes = done.votes0
    /\ voting_history = done.history0

C6_Witness ==
  /\ done.kind = "status" /\ done.status = "running"
  /\ done.pending0 # <<>>
  /\ pending_votes = <<>>

\* C7: every operation that archives the votes of the current round and stops
\* voting (the round-closing status request, POST /api/votes/clear) increases
\* current_round by exactly 1.
C7_CloseIncrementsRound ==
  (Closing(done) \/ (done.kind = "clear" /\ Archives(done.roundVotes))) =>
    voting_config.current_round = done.config.current_round + 1

\* C8: voting_config.status is "running" or "stopped" after any sequence of
\* requests.
C8_StatusDomain == voting_config.status \in {"running", "stopped"}

\* C9: voting_history is append-only: every step keeps the rows it found, in
\* place and unmodified.
C9_HistoryAppendOnly ==
  [][ /\ Len(voting_history') >= Len(voting_history)
      /\ SubSeq(voting_history', 1, Len(voting_history)) = voting_history
    ]_vars

C9_Witness ==
  /\ Len(voting_history) = 2
  /\ done.kind \in {"status", "clear"}
  /\ Len(done.history0) = 1

\* C10 as stated: every round-closing status request appends one history row
\* for the round it closes, whatever the number of votes of the round.
C10_ArchiveAlways ==
  Closing(done) =>
    /\ Len(voting_history) = Len(done.history0) + 1
    /\ voting_history[Len(voting_history)].round = done.config.current_round

\* C10 (amended): a round-closing status request appends one history row for
\* the round it closes when the round holds at least one vote, and none when
\* the round holds no vote.
C10_ArchiveIfVotes ==
  Closing(done) =>
    IF RowsOfRound(done.votes0, done.config.current_round) # {}
      THEN /\ Len(voting_history) = Len(done.history0) + 1
           /\ voting_history[Len(voting_history)].round =
                done.config.current_round
      ELSE voting_history = done.history0

C10_Witness ==
  /\ Closing(done)
  /\ RowsOfRound(done.votes0, done.config.current_round) = {}
  /\ voting_history = done.history0
  /\ voting_config.current_round = done.config.current_round + 1

\* C11: a pending vote stays in pending_votes, unaltered, until a status
\* request with status "running" discards it: every other step keeps the rows
\* it found, and a step that adds a row to votes is the INSERT of a vote
\* request in flight and leaves pending_votes alone.
C11_PendingHeld ==
  [][ /\ \/ /\ Len(pending_votes') >= Len(pending_votes)
            /\ SubSeq(pending_votes', 1, Len(pending_votes)) = pending_votes
         \/ /\ pending_votes' = <<>>
            /\ \E r \in Slots :
                 req[r].kind = "status" /\ req[r].status = "running"
      /\ votes' \ votes # {} =>
           /\ pending_votes' = pending_votes
           /\ \E r \in Slots :
                /\ req[r].kind \in {"vote", "sms"}
                /\ \A v \in votes' \ votes :
                     /\ v.phone_number = req[r].phone
                     /\ v.letter = toUpperCase(req[r].letter)
    ]_vars

C11_Witness ==
  /\ Closing(done)
  /\ done.pending0 # <<>>
  /\ pending_votes = done.pending0
  /\ voting_config.status = "stopped"

\* a message that is one letter a-f or A-F
VoteMessage(message) ==
  /\ Len(message) = 1
  /\ message[1] \in {"a", "b", "c", "d", "e", "f", "A", "B", "C", "D", "E", "F"}

\* s has r as a prefix
Extends(s, r) == Len(s) >= Len(r) /\ SubSeq(s, 1, Len(r)) = r

\* C19: an SMS with From and Body is handled as a vote exactly when its
\* trimmed body is one letter a-f or A-F, and as a donation otherwise; a vote
\* message adds no donations row, any other message adds no votes or
\* pending_votes row, and a request adds at most one row in all.
C19_SmsVoteOrDonation ==
  /\ done.kind = "sms" =>
       /\ VoteMessage(done.message)
       /\ donations = done.donations0
       /\ done.votes0 \subseteq votes
       /\ Extends(pending_votes, done.pending0)
       /\ Cardinality(votes \ done.votes0)
            + (Len(pending_votes) - Len(done.pending0)) <= 1
  /\ done.kind = "donation" =>
       /\ ~VoteMessage(done.message)
       /\ votes = done.votes0
       /\ pending_votes = done.pending0
       /\ Extends(donations, done.donations0)
       /\ Len(donations) <= Len(done.donations0) + 1

C19_Witness ==
  /\ done.kind = "donation"
  /\ done.message = << "z" >>
  /\ Len(donations) = Len(done.donations0) + 1

\* 10 to the power n
RECURSIVE Pow10(_)
Pow10(n) == IF n = 0 THEN 1 ELSE 10 * Pow10(n - 1)

\* the decimal value of a run of digits, digit by digit
RECURSIVE DecimalValue(_)
DecimalValue(ds) ==
  IF ds = <<>> THEN 0
  ELSE DigitVal(Head(ds)) * Pow10(Len(ds) - 1) + DecimalValue(Tail(ds))

\* the first run of decimal digits of a message: from its first digit to the
\* last position before the next character that is no digit; <<>> if the
\* message has no digit
FirstDigitRun(m) ==
  LET at == {i \in 1..Len(m) : m[i] \in Digits}
  IN  IF at = {} THEN <<>>
      ELSE LET a == CHOOSE i \in at : \A j \in at : i <= j
               b == CHOOSE i \in a..Len(m) :
                      /\ \A k \in a..i : m[k] \in Digits
                      /\ i = Len(m) \/ m[i + 1] \notin Digits
           IN  SubSeq(m, a, b)

\* C20: the amount stored for a donation SMS is the integer value of the
\* first run of decimal digits of the trimmed message, 0 when it has none;
\* the dedication stored is empty when the trimmed message is that run alone
\* and the whole trimmed message otherwise.
C20_DonationParsed ==
  ( /\ done.kind = "donation"
    /\ Len(donations) = Len(done.donations0) + 1 ) =>
    LET row == donations[Len(donations)]
        run == FirstDigitRun(done.message)
    IN  /\ row.phone = done.phone
        /\ row.amount = IF run = <<>> THEN 0 ELSE DecimalValue(run)
        /\ row.message = IF run # <<>> /\ done.message = run
                           THEN <<>> ELSE done.message

C20_Witness ==
  /\ done.kind = "donation"
  /\ done.message = << "a", "1", "2", " ", "3" >>
  /\ Len(donations) = Len(done.donations0) + 1
  /\ donations[Len(donations)].amount = 12
  /\ donations[Len(donations)].message = done.message

\* C22: once the requests in flight have run to their end, every row of
\* votes has the round that voting_config.current_round names, under any
\* interleaving of vote requests with status changes.
C22_VotesInCurrentRound ==
  Quiet => \A v \in votes : v.round = voting_config.current_round

\* C23: once the requests in flight have run to their end, pending_votes is
\* empty whenever the status is "running", under any interleaving of vote
\* requests with a status change to "running".
C23_NoPendingWhileRunning ==
  (Quiet /\ voting_config.status = "running") => pending_votes = <<>>

\* C24: voting_history holds at most one row per round number.
C24_OneHistoryRowPerRound ==
  \A i, j \in 1..Len(voting_history) :
    voting_history[i].round = voting_history[j].round => i = j

\* a completed status request with status "stopped" that found the status
\* "stopped"
StopWhileStopped(rec) ==
  /\ rec.kind = "status" /\ rec.status = "stopped"
  /\ rec.config.status = "stopped"

C27_LettersAtoF ==
  /\ \A v \in votes : v.letter \in {"A", "B", "C", "D", "E", "F"}
  /\ \A i \in 1..Len(pending_votes) :
       pending_votes[i].letter \in {"A", "B", "C", "D", "E", "F"}

\* ---------------------------------------------------- gallery properties
\* The properties below look at the gallery request that has just ended
\* (udone), at its response (usent) and at the table and the stored images.

FilterMessage == "Only image files (JPG, PNG, GIF, WebP) are allowed!"

\* a submission that has just ended
Submitted(rec) == rec.kind = "submit"

\* C12: a submission with a non-blank name and an image the upload accepts
\* (filter and size limit) answers 201 with an id and an image URL and adds
\* exactly one users row with that id, the trimmed name and that URL, with
\* either storage backend.
C12_SubmitCreatesRow ==
  ( /\ Submitted(udone)
    /\ ~(udone.name = <<>> \/ Trim(udone.name) = <<>>)
    /\ udone.file.present /\ fileFilter(udone.file)
    /\ udone.file.size <= fileSize ) =>
    /\ usent.code = 201
    /\ Len(usent.data) = 1
    /\ Len(users) = Len(udone.users0) + 1
    /\ SubSeq(users, 1, Len(udone.users0)) = udone.users0
    /\ users[Len(users)].id = usent.data[1].id
    /\ users[Len(users)].name = Trim(udone.name)
    /\ users[Len(users)].image_url = usent.data[1].image_url

C14_FailedSubmitCleansUp ==
  (Submitted(udone) /\ ~USE_SPACES /\ usent.code # 201) =>
    images = udone.images0

\* C15: GET /api/users/:id answers 404 "User not found" when no row has the
\* id, 200 with the row when one has, and changes no state.
C15_GetUserById ==
  udone.kind = "getUser" =>
    /\ IF \E i \in 1..Len(udone.users0) : udone.users0[i].id = udone.id
         THEN /\ usent.code = 200
              /\ Len(usent.data) = 1
              /\ usent.data[1].id = udone.id
              /\ usent.data[1] \in Range(udone.users0)
         ELSE /\ usent.code = 404
              /\ usent.error = "User not found"
    /\ users = udone.users0
    /\ images = udone.images0

C15_Witness ==
  /\ udone.kind = "getUser"
  /\ usent.code = 200
  /\ Len(users) = 2

\* C16: as long as DELETE /api/users has not removed its row, a submission
\* that answered 201 is in the list GET /api/users returns, under the id the
\* submission returned, and the count returned is the number of users rows.
C16_SubmissionListed ==
  usent.kind = "getUsers" =>
    /\ usent.code = 200
    /\ usent.count = Len(users)
    /\ Len(usent.data) = usent.count
    /\ \A id \in submitted :
         \E i \in 1..Len(usent.data) : usent.data[i].id = id

C16_Witness ==
  /\ usent.kind = "getUsers"
  /\ Cardinality(submitted) = 2
  /\ usent.count = 2

\* the extensions and MIME types of the image formats
ImageExtensions ==
  { <<".", "j", "p", "g">>, <<".", "j", "p", "e", "g">>,
    <<".", "p", "n", "g">>, <<".", "g", "i", "f">>,
    <<".", "w", "e", "b", "p">> }

ImageMimeTypes ==
  { <<"i", "m", "a", "g", "e", "/", "j", "p", "e", "g">>,
    <<"i", "m", "a", "g", "e", "/", "p", "n", "g">>,
    <<"i", "m", "a", "g", "e", "/", "g", "i", "f">>,
    <<"i", "m", "a", "g", "e", "/", "w", "e", "b", "p">> }

ImageFile(file) ==
  Lower(file.extname) \in ImageExtensions /\ file.mimetype \in ImageMimeTypes

\* C17: an uploaded file is accepted only if its extension and its MIME type
\* are those of an image format; every other file is answered 400 with the
\* filter's message and creates no users row.
C17_OnlyImagesAccepted ==
  (Submitted(udone) /\ udone.file.present /\ ~ImageFile(udone.file)) =>
    /\ usent.code = 400
    /\ usent.error = FilterMessage
    /\ users = udone.users0

\* C18 as stated: an upload of more than 10 MB is answered 400 "File too
\* large. Maximum size is 10MB." and creates no users row.
C18_LargeUploadRefused ==
  ( /\ Submitted(udone) /\ udone.file.present
    /\ udone.file.size > 10 * 1024 * 1024 ) =>
    /\ usent.code = 400
    /\ usent.error = "File too large. Maximum size is 10MB."
    /\ users = udone.users0

\* C18 (amended): an upload of more than 10 MB that the upload filter accepts
\* is answered 400 "File too large. Maximum size is 10MB."; one the filter
\* refuses is answered 400 with the filter's message; neither creates a
\* users row nor leaves a stored image.
C18_LargeImageRefused ==
  ( /\ Submitted(udone) /\ udone.file.present
    /\ udone.file.size > 10 * 1024 * 1024 ) =>
    /\ usent.code = 400
    /\ usent.error = IF fileFilter(udone.file)
                       THEN "File too large. Maximum size is 10MB."
                       ELSE FilterMessage
    /\ users = udone.users0
    /\ images = udone.images0

C18_Witness ==
  /\ Submitted(udone) /\ udone.file.present
  /\ udone.file.size > 10 * 1024 * 1024
  /\ fileFilter(udone.file)
  /\ usent.code = 400
  /\ usent.error = "File too large. Maximum size is 10MB."
\* C29: the step in which DELETE /api/users answers leaves users empty and
\* leaves no stored image of a row it removed, under both storage backends
\* and under any interleaving with POST /api/submit.
C29_DeleteRemovesImages ==
  [][\A r \in Slots :
       DeleteUsersRows(r) =>
         /\ users' = <<>>
         /\ \A i \in 1..Len(users) : users[i].image_path \notin images']_vars

\* the reply inside <Message> has v in it
Contains(text, v) == v = "" \/ text = v

\* C21: once POST /api/config/auto_reply_message has stored v, and until it
\* stores another value, GET /api/config/auto_reply_message returns v and
\* the reply to a donation SMS contains v.
C21_StoredValueServed ==
  lastSet # << >> =>
    /\ sent.kind = "getConfig" => sent.code = 200 /\ sent.value = lastSet[1]
    /\ sent.kind = "donation" => Contains(sent.text, lastSet[1])

C21_Witness ==
  /\ sent.kind = "donation"
  /\ lastSet = << "v2" >>
  /\ sent.text = "v2"

\* C30: a request whose path starts with /api/ and that no route matches is
\* answered with 404 and the error "API route not found", whatever the
\* method and the mode.
C30_UnknownApiRoute404 ==
  (done.kind = "unmatched" /\ IsApiPath(done.path)) =>
    sent.code = 404 /\ sent.text = "API route not found"

\* C26: a request whose handler has run to its end has been answered; here
\* for PUT /api/users/:id, under any interleaving with DELETE /api/users
\* and POST /api/submit.
C26_RequestAnswered ==
  udone.kind = "put" => usent.kind = "put" /\ usent.code # 0

\* C28: in a response of GET /api/votes every vote of the votes list has
\* the round returned as currentRound, and no vote of the votes list is in
\* the returned roundHistory, also when the GET interleaves with a status
\* change.
C28_VotesSnapshotConsistent ==
  sent.kind = "getVotes" =>
    \A v \in Range(sent.votes) :
      /\ v.round = sent.currentRound
      /\ \A i \in 1..Len(sent.roundHistory) :
           v \notin Range(sent.roundHistory[i].votes)

====
